---- MODULE Spec2Model ----
(***************************************************************************)
(* Majority-vote evaluation engine of the email game (src/models.py,       *)
(* src/utils.py, src/evaluation.py).                                       *)
(*                                                                         *)
(* Spec       : one call of EmailRecipient.generate_reply_with_majority    *)
(*              made by process_email_evaluation_user_mode_inline.         *)
(* ParserSpec : extract_goal_achievement_score and the per-reply           *)
(*              classification step applied to every short model output.   *)
(***************************************************************************)
EXTENDS Integers, Sequences, FiniteSets, TLC

\* ------------------------------------------------------------------ bounds
MaxSamples == 4      \* largest num_samples explored
MaxLen == 5          \* longest raw evaluation text explored by ParserSpec

\* ------------------------------------------------------------- text model
\* A text is a sequence of one-character strings.
Alphabet == {"Y", "y", "e", "s", "o", ".", " "}
Whitespace == {" ", "\n", "\t"}
Punctuation == {".", ",", "!", "?", ";", ":"}

Texts(n) == UNION {[1..k -> Alphabet] : k \in 0..n}

\* str.lower() on one character.
LowerChar(c) ==
    CASE c = "Y" -> "y"
      [] c = "E" -> "e"
      [] c = "S" -> "s"
      [] c = "N" -> "n"
      [] c = "O" -> "o"
      [] OTHER -> c

Lower(s) == [i \in 1..Len(s) |-> LowerChar(s[i])]

RECURSIVE LStrip(_, _)
LStrip(s, chars) ==
    IF s # <<>> /\ Head(s) \in chars THEN LStrip(Tail(s), chars) ELSE s

RECURSIVE RStrip(_, _)
RStrip(s, chars) ==
    IF s # <<>> /\ s[Len(s)] \in chars
    THEN RStrip(SubSeq(s, 1, Len(s) - 1), chars)
    ELSE s

\* str.strip(chars): removes the characters from both ends.
Strip(s, chars) == RStrip(LStrip(s, chars), chars)

\* str.split() without arguments: maximal runs of non-whitespace characters.
RECURSIVE SplitFrom(_, _, _)
SplitFrom(s, cur, acc) ==
    IF s = <<>>
    THEN IF cur = <<>> THEN acc ELSE Append(acc, cur)
    ELSE IF Head(s) \in Whitespace
         THEN SplitFrom(Tail(s), <<>>, IF cur = <<>> THEN acc ELSE Append(acc, cur))
         ELSE SplitFrom(Tail(s), Append(cur, Head(s)), acc)

Split(s) == SplitFrom(s, <<>>, <<>>)

YesWord == <<"y", "e", "s">>

\* ------------------------------------------ utils.extract_goal_achievement_score
\* words = evaluation_text.strip().split()
Words(evaluation_text) == Split(Strip(evaluation_text, Whitespace))

\* "if not words: raise ValueError"
ExtractRaises(evaluation_text) == Words(evaluation_text) = <<>>

\* Variant: only trailing punctuation is removed (rstrip).
StripFinalWordTrailing(word) == RStrip(word, Punctuation)

\* words[-1].lower().strip('.,!?;:')
StripFinalWord(word) == Strip(word, Punctuation)

FinalWord(evaluation_text) ==
    LET words == Words(evaluation_text)
    IN  StripFinalWord(Lower(words[Len(words)]))

\* The boolean returned when no ValueError is raised.
extract_goal_achievement_score(evaluation_text) ==
    FinalWord(evaluation_text) = YesWord

\* --------------------------------------------- EmailEvaluator.evaluate_email
\* What the evaluation call meets: the prompt cannot be built (an exception
\* before the try block), the API call or the content access raises (caught,
\* None returned), or the model returns raw content.
PromptError == [kind |-> "prompt_error", raw |-> <<>>]
ApiError == [kind |-> "api_error", raw |-> <<>>]
Content(raw) == [kind |-> "content", raw |-> raw]

PyNone == [kind |-> "None", text |-> <<>>]
PyRaise == [kind |-> "raise", text |-> <<>>]
PyStr(t) == [kind |-> "str", text |-> t]

evaluate_email(resp) ==
    CASE resp.kind = "prompt_error" -> PyRaise
      [] resp.kind = "api_error" -> PyNone
      [] OTHER -> PyStr(Strip(resp.raw, Whitespace))

\* An entry of the evaluations list: the evaluation text, or a diagnostic.
EvalText(t) == [diag |-> "", text |-> t]
Diagnostic(m) == [diag |-> m, text |-> <<>>]

\* "if evaluation:" on the value returned by evaluate_email
EvaluationTruthy(ev) == ev.kind = "str" /\ ev.text # <<>>

\* Variant: a reply whose evaluation returned no content is passed.
AnalyzeOnePassDefault(resp) ==
    LET ev == evaluate_email(resp)
    IN  IF ev.kind = "raise"
        THEN [outcome |-> "FAIL", evaluation |-> Diagnostic("Evaluation failed: error")]
        ELSE IF EvaluationTruthy(ev)
        THEN [outcome |-> IF extract_goal_achievement_score(ev.text) THEN "PASS" ELSE "FAIL",
              evaluation |-> EvalText(ev.text)]
        ELSE [outcome |-> "PASS",
              evaluation |-> Diagnostic("Evaluation failed - no content returned")]

\* Body of the per-reply loop of _analyze_reply_outcomes: the verdict and the
\* evaluations entry of one reply.
AnalyzeOne(resp) ==
    LET ev == evaluate_email(resp)
    IN  IF ev.kind = "raise"
        THEN [outcome |-> "FAIL", evaluation |-> Diagnostic("Evaluation failed: error")]
        ELSE IF EvaluationTruthy(ev)
        THEN IF ExtractRaises(ev.text)
             THEN [outcome |-> "FAIL", evaluation |-> Diagnostic("Evaluation failed: error")]
             ELSE [outcome |-> IF extract_goal_achievement_score(ev.text) THEN "PASS" ELSE "FAIL",
                   evaluation |-> EvalText(ev.text)]
        ELSE [outcome |-> "FAIL",
              evaluation |-> Diagnostic("Evaluation failed - no content returned")]

\* ------------------------------- EmailRecipient.generate_reply_with_majority
Outcomes == {"PASS", "FAIL"}

\* What a reply-generation worker returns: None when the call raises, else
\* the stripped content (possibly empty).
NoneReply == "None"
ReplyTexts == {"a", "b"}
WorkerResults == {NoneReply, ""} \cup ReplyTexts

\* Variant: the truthiness test is missing, every returned value is kept.
ReplyTruthyAlways(reply) == TRUE

\* "if reply:" in the as_completed loop
ReplyTruthy(reply) == reply # NoneReply /\ reply # ""

\* Variant: a reply text already collected is not collected again.
CollectReplyUnique(replies_, reply) ==
    IF ReplyTruthy(reply) /\ \A i \in DOMAIN replies_ : replies_[i] # reply
    THEN Append(replies_, reply)
    ELSE replies_

\* replies.append(reply) guarded by "if reply:"
CollectReply(replies_, reply) ==
    IF ReplyTruthy(reply) THEN Append(replies_, reply) ELSE replies_

\* Variant: a new outcome is put in front of the items already present.
CountsAddFront(counts, o) ==
    IF \E i \in DOMAIN counts : counts[i].outcome = o
    THEN [i \in DOMAIN counts |->
            IF counts[i].outcome = o
            THEN [counts[i] EXCEPT !.count = @ + 1]
            ELSE counts[i]]
    ELSE <<[outcome |-> o, count |-> 1]>> \o counts

\* Variant: an outcome already present is set to one instead of incremented.
CountsAddOverwrite(counts, o) ==
    IF \E i \in DOMAIN counts : counts[i].outcome = o
    THEN [i \in DOMAIN counts |->
            IF counts[i].outcome = o
            THEN [counts[i] EXCEPT !.count = 1]
            ELSE counts[i]]
    ELSE Append(counts, [outcome |-> o, count |-> 1])

\* outcome_counts[outcome] = outcome_counts.get(outcome, 0) + 1 on a dict that
\* keeps insertion order: a sequence of (outcome, count) items.
CountsAdd(counts, o) ==
    IF \E i \in DOMAIN counts : counts[i].outcome = o
    THEN [i \in DOMAIN counts |->
            IF counts[i].outcome = o
            THEN [counts[i] EXCEPT !.count = @ + 1]
            ELSE counts[i]]
    ELSE Append(counts, [outcome |-> o, count |-> 1])

RECURSIVE TallyFrom(_, _)
TallyFrom(outs, counts) ==
    IF outs = <<>> THEN counts
    ELSE TallyFrom(Tail(outs), CountsAdd(counts, Head(outs)))

OutcomeCounts(outs) == TallyFrom(outs, <<>>)

\* outcome_counts.get(o, 0)
CountOf(counts, o) ==
    IF \E i \in DOMAIN counts : counts[i].outcome = o
    THEN (CHOOSE c \in {counts[i] : i \in DOMAIN counts} : c.outcome = o).count
    ELSE 0

\* Variant: max() without the key compares the items themselves, so the
\* greatest outcome name wins whatever its count.
MajorityOutcomeNoKey(counts) ==
    IF \E i \in DOMAIN counts : counts[i].outcome = "PASS" THEN "PASS" ELSE "FAIL"

\* Variant: the last item with the largest count wins.
MajorityOutcomeLastMax(counts) ==
    LET i == CHOOSE i \in DOMAIN counts :
                /\ \A j \in DOMAIN counts : counts[j].count <= counts[i].count
                /\ \A j \in (i + 1)..Len(counts) : counts[j].count < counts[i].count
    IN  counts[i].outcome

\* max(outcome_counts.items(), key=lambda x: x[1])[0]: the first item, in
\* iteration order, with the largest count.
MajorityOutcome(counts) ==
    LET i == CHOOSE i \in DOMAIN counts :
                /\ \A j \in DOMAIN counts : counts[j].count <= counts[i].count
                /\ \A j \in 1..(i - 1) : counts[j].count < counts[i].count
    IN  counts[i].outcome

\* Variant: the pick is made among all replies.
MajorityRepliesAny(reps, outs, majority) == reps

RECURSIVE MajorityReplies(_, _, _)
MajorityReplies(reps, outs, majority) ==
    IF reps = <<>> THEN <<>>
    ELSE IF Head(outs) = majority
         THEN <<Head(reps)>> \o MajorityReplies(Tail(reps), Tail(outs), majority)
         ELSE MajorityReplies(Tail(reps), Tail(outs), majority)

\* Model outputs the evaluation calls of one aggregation may meet.
YesText == <<"Y", "e", "s", ".">>
NoText == <<"y", "e", "s", " ", "N", "o">>
EvalResponses == {PromptError, ApiError, Content(YesText), Content(NoText)}

NoResult == [kind |-> "pending"]
NoneResult == [kind |-> "None"]

VARIABLES
    pc,              \* position of the caller / aggregator / parser
    num_samples,     \* argument of generate_reply_with_majority
    finished,        \* return values of the finished workers, in completion order
    yielded,         \* how many finished futures as_completed has handed out
    replies,         \* the replies list
    outcomes,        \* outcome_analysis['outcomes']
    evaluations,     \* outcome_analysis['evaluations']
    eval_calls,      \* number of evaluate_email calls made so far
    eval_log,        \* the evaluate_email calls made: the reply passed and what it met
    gen_calls,       \* number of reply-generation calls made so far
    result,          \* value returned by generate_reply_with_majority
    caller,          \* what process_email_evaluation_user_mode_inline did with it
    eval_response,   \* ParserSpec: what the evaluation call meets
    parsed           \* ParserSpec: what the parser / classifier produced

aggVars == <<num_samples, finished, yielded, replies, outcomes, evaluations,
             eval_calls, eval_log, gen_calls, result, caller>>
parserVars == <<eval_response, parsed>>

\* State of one validate_email_consistency / ..._multi_turn call.
VARIABLES
    v_multi,             \* TRUE for validate_email_consistency_multi_turn
    num_paraphrases,     \* argument num_paraphrases
    para_finished,       \* return values of the paraphrase workers, in completion order
    para_yielded,        \* how many of them as_completed has handed out
    paraphrases,         \* the paraphrases list
    original_outcome,    \* original_outcome
    test_finished,       \* finished paraphrase tests, in completion order
    test_yielded,        \* how many of them as_completed has handed out
    paraphrase_outcomes, \* paraphrase_outcomes
    paraphrase_replies,  \* paraphrase_replies
    v_para_calls,        \* paraphrase-generation calls made so far
    v_reply_calls,       \* generate_reply calls made so far
    v_eval_calls,        \* evaluate_email calls made so far
    v_result             \* value returned by the validator

valVars == <<v_multi, num_paraphrases, para_finished, para_yielded, paraphrases,
             original_outcome, test_finished, test_yielded, paraphrase_outcomes,
             paraphrase_replies, v_para_calls, v_reply_calls, v_eval_calls, v_result>>

\* State of one ThreadPoolExecutor: tasks waiting, running and finished.
VARIABLES
    pool_step,       \* which of the three concurrent steps opened the pool
    pool_count,      \* number of tasks submitted
    pool_queued,     \* tasks not started yet
    pool_running,    \* tasks running in a worker thread
    pool_done        \* tasks finished

poolVars == <<pool_step, pool_count, pool_queued, pool_running, pool_done>>

\* Inputs and output of the consistency-score computation.
VARIABLES
    score_outcomes,  \* paraphrase_outcomes handed to the computation
    score_original,  \* original_outcome handed to the computation
    score_result     \* consistency_score and is_consistent computed

scoreVars == <<score_outcomes, score_original, score_result>>

\* Two classifications of the same replies against the same model stub.
VARIABLES
    cls_replies,     \* the replies handed to _analyze_reply_outcomes
    cls_stub,        \* what evaluate_email meets for each reply (the same both times)
    cls_ready,       \* whether the import and EmailEvaluator() succeed
    cls_first,       \* outcomes of the first classification
    cls_second       \* outcomes of the second classification

clsVars == <<cls_replies, cls_stub, cls_ready, cls_first, cls_second>>

\* The database tables, the Streamlit session state of the browser session
\* and the last handler or operation that ran (one script run at a time).
VARIABLES
    db,              \* email submissions, evaluation results, level completions
    session_state,   \* completed_levels, level_evaluations, level_emails
    last_call        \* the last call: its arguments and what it returned

storeVars == <<db, session_state, last_call>>

restVars == <<valVars, poolVars, scoreVars, clsVars, storeVars>>

vars == <<pc, aggVars, parserVars, valVars, poolVars, scoreVars, clsVars, storeVars>>

\* Values of the variables of the calls that are not in progress.
ValidatorIdle ==
    /\ v_multi = FALSE
    /\ num_paraphrases = 0
    /\ para_finished = <<>>
    /\ para_yielded = 0
    /\ paraphrases = <<>>
    /\ original_outcome = "PASS"
    /\ test_finished = <<>>
    /\ test_yielded = 0
    /\ paraphrase_outcomes = <<>>
    /\ paraphrase_replies = <<>>
    /\ v_para_calls = 0
    /\ v_reply_calls = 0
    /\ v_eval_calls = 0
    /\ v_result = [kind |-> "pending"]

PoolIdle ==
    /\ pool_step = "none"
    /\ pool_count = 0
    /\ pool_queued = 0
    /\ pool_running = 0
    /\ pool_done = 0

ScoreIdle ==
    /\ score_outcomes = <<>>
    /\ score_original = "PASS"
    /\ score_result = [kind |-> "pending"]

ClassifierIdle ==
    /\ cls_replies = <<>>
    /\ cls_stub = <<>>
    /\ cls_ready = TRUE
    /\ cls_first = <<>>
    /\ cls_second = <<>>

EmptyDb == [subs |-> {}, evals |-> {}, comps |-> {}]
EmptySessionState ==
    [completed_levels |-> {}, level_evaluations |-> {}, level_emails |-> {}]
NoCall == [op |-> "none"]

StoreIdle ==
    /\ db = EmptyDb
    /\ session_state = EmptySessionState
    /\ last_call = NoCall

AggregatorIdle ==
    /\ num_samples = 1
    /\ finished = <<>>
    /\ yielded = 0
    /\ replies = <<>>
    /\ outcomes = <<>>
    /\ evaluations = <<>>
    /\ eval_calls = 0
    /\ eval_log = <<>>
    /\ gen_calls = 0
    /\ result = [kind |-> "pending"]
    /\ caller = "waiting"

ParserIdle ==
    /\ eval_response = ApiError
    /\ parsed = [call |-> "none"]

\* Workers of the pool that have not returned yet.  The workers are
\* interchangeable: the indices kept in future_to_index are never read.
RunningWorkers == IF pc = "call" THEN 0 ELSE num_samples - Len(finished)

Init ==
    /\ pc = "call"
    /\ num_samples \in 1..MaxSamples
    /\ finished = <<>>
    /\ yielded = 0
    /\ replies = <<>>
    /\ outcomes = <<>>
    /\ evaluations = <<>>
    /\ eval_calls = 0
    /\ eval_log = <<>>
    /\ gen_calls = 0
    /\ result = NoResult
    /\ caller = "waiting"
    /\ eval_response = ApiError
    /\ parsed = [call |-> "none"]
    /\ ValidatorIdle
    /\ PoolIdle
    /\ ScoreIdle
    /\ ClassifierIdle
    /\ StoreIdle

\* executor.submit(self._generate_single_reply, ...) for i in range(num_samples)
Submit ==
    /\ pc = "call"
    /\ pc' = "sampling"
    /\ UNCHANGED <<num_samples, finished, yielded, replies, outcomes, evaluations,
                   eval_calls, eval_log, gen_calls, result, caller, parserVars, restVars>>

\* _generate_single_reply returns r in one of the running workers (None when
\* the call raised).
WorkerFinish(r) ==
    /\ pc = "sampling"
    /\ RunningWorkers > 0
    /\ finished' = Append(finished, r)
    /\ gen_calls' = gen_calls + 1
    /\ UNCHANGED <<pc, num_samples, yielded, replies, outcomes, evaluations,
                   eval_calls, eval_log, result, caller, parserVars, restVars>>

\* One iteration of "for future in as_completed(...)": the next finished
\* future is yielded and its reply kept when truthy.
Collect ==
    /\ pc = "sampling"
    /\ yielded < Len(finished)
    /\ yielded' = yielded + 1
    /\ replies' = CollectReply(replies, finished[yielded + 1])
    /\ UNCHANGED <<pc, num_samples, finished, outcomes, evaluations,
                   eval_calls, eval_log, gen_calls, result, caller, parserVars, restVars>>

\* Variant: the loop is left after the first future (FIRST_COMPLETED).
PoolJoinedFirst == yielded >= 1

\* The as_completed loop has yielded every submitted future and the with
\* block has been left (the executor has joined its workers).
PoolJoined == yielded = num_samples

\* "if not replies: return None" after the pool has been joined.
ReturnNoReplies ==
    /\ pc = "sampling"
    /\ PoolJoined
    /\ replies = <<>>
    /\ result' = NoneResult
    /\ pc' = "returned"
    /\ UNCHANGED <<num_samples, finished, yielded, replies, outcomes, evaluations,
                   eval_calls, eval_log, gen_calls, caller, parserVars, restVars>>

\* _analyze_reply_outcomes is entered and EmailEvaluator() is constructed.
EvaluatorReady ==
    /\ pc = "sampling"
    /\ PoolJoined
    /\ replies # <<>>
    /\ pc' = "evaluating"
    /\ UNCHANGED <<aggVars, parserVars, restVars>>

\* Outer except of _analyze_reply_outcomes (the import or EmailEvaluator()
\* raised): outcomes = [random.choice(['PASS', 'FAIL']) for _ in replies].
FallbackOutcomes(n) == [1..n -> Outcomes]

\* Variant: one fallback entry for the whole batch.
FallbackEvaluationsOne(reps) ==
    <<Diagnostic("Fallback evaluation (analysis failed)")>>

\* evaluations = [f"Fallback evaluation (analysis failed): ..." for _ in replies]
FallbackEvaluations(reps) ==
    [i \in 1..Len(reps) |-> Diagnostic("Fallback evaluation (analysis failed)")]

AnalysisFallback ==
    /\ pc = "sampling"
    /\ PoolJoined
    /\ replies # <<>>
    /\ \E outs \in FallbackOutcomes(Len(replies)) : outcomes' = outs
    /\ evaluations' = FallbackEvaluations(replies)
    /\ pc' = "tally"
    /\ UNCHANGED <<num_samples, finished, yielded, replies, eval_calls, eval_log, gen_calls, result,
                   caller, parserVars, restVars>>

\* One iteration of "for reply in replies" in _analyze_reply_outcomes.
EvaluateReply(resp) ==
    /\ pc = "evaluating"
    /\ Len(outcomes) < Len(replies)
    /\ LET a == AnalyzeOne(resp)
       IN  /\ outcomes' = Append(outcomes, a.outcome)
           /\ evaluations' = Append(evaluations, a.evaluation)
    /\ eval_calls' = eval_calls + 1
    /\ eval_log' = Append(eval_log, [reply |-> replies[Len(outcomes) + 1], resp |-> resp])
    /\ pc' = IF Len(outcomes) + 1 = Len(replies) THEN "tally" ELSE "evaluating"
    /\ UNCHANGED <<num_samples, finished, yielded, replies, gen_calls, result, caller,
                   parserVars, restVars>>

\* Lines 227-251: tally, majority, random.choice among the majority replies.
MajoritySelect ==
    /\ pc = "tally"
    /\ LET outcome_counts == OutcomeCounts(outcomes)
           majority_outcome == MajorityOutcome(outcome_counts)
           majority_replies == MajorityReplies(replies, outcomes, majority_outcome)
       IN  \E k \in DOMAIN majority_replies :
               result' = [kind |-> "dict",
                          reply |-> majority_replies[k],
                          outcome_analysis |-> [outcomes |-> outcomes,
                                                replies |-> replies,
                                                evaluations |-> evaluations],
                          all_replies |-> replies,
                          majority_outcome |-> majority_outcome,
                          outcome_counts |-> outcome_counts]
    /\ pc' = "returned"
    /\ UNCHANGED <<num_samples, finished, yielded, replies, outcomes, evaluations,
                   eval_calls, eval_log, gen_calls, caller, parserVars, restVars>>

\* evaluation.py 357-363: "if not reply_result: st.error(...); return".
CallerCheck ==
    /\ pc = "returned"
    /\ caller' = IF result = NoneResult THEN "failed_to_generate" ELSE "has_reply"
    /\ pc' = "done"
    /\ UNCHANGED <<num_samples, finished, yielded, replies, outcomes, evaluations,
                   eval_calls, eval_log, gen_calls, result, parserVars, restVars>>

Next ==
    \/ Submit
    \/ \E r \in WorkerResults : WorkerFinish(r)
    \/ Collect
    \/ ReturnNoReplies
    \/ EvaluatorReady
    \/ AnalysisFallback
    \/ \E resp \in EvalResponses : EvaluateReply(resp)
    \/ MajoritySelect
    \/ CallerCheck

Spec == Init /\ [][Next]_vars

\* ------------------------------------------------------------- ParserSpec
\* Every evaluation response whose raw content has at most MaxLen characters.
ParserResponses == {PromptError, ApiError} \cup {Content(t) : t \in Texts(MaxLen)}

ParserInit ==
    /\ pc = "parse"
    /\ eval_response \in ParserResponses
    /\ parsed = [call |-> "none"]
    /\ AggregatorIdle
    /\ ValidatorIdle
    /\ PoolIdle
    /\ ScoreIdle
    /\ ClassifierIdle
    /\ StoreIdle

\* extract_goal_achievement_score called directly on the raw content.
ExtractVerdict ==
    /\ pc = "parse"
    /\ eval_response.kind = "content"
    /\ parsed' = [call |-> "extract",
                  raises |-> ExtractRaises(eval_response.raw),
                  value |-> IF ExtractRaises(eval_response.raw) THEN FALSE
                            ELSE extract_goal_achievement_score(eval_response.raw)]
    /\ pc' = "parsed"
    /\ UNCHANGED <<aggVars, eval_response, restVars>>

\* The per-reply classification of _analyze_reply_outcomes on this response.
ClassifyReply ==
    /\ pc = "parse"
    /\ parsed' = [call |-> "classify",
                  outcome |-> AnalyzeOne(eval_response).outcome,
                  evaluation |-> AnalyzeOne(eval_response).evaluation]
    /\ pc' = "parsed"
    /\ UNCHANGED <<aggVars, eval_response, restVars>>

ParserNext == ExtractVerdict \/ ClassifyReply

ParserSpec == ParserInit /\ [][ParserNext]_vars

\* --------------------------------------------------- consistency validator
MaxParaphrases == 3      \* largest num_paraphrases explored

MinParaphraseLen == 20   \* "len(result) > 20"
ThresholdNum == 7        \* "consistency_score >= 0.7" as the fraction 7/10
ThresholdDen == 10

Rep(c, n) == [i \in 1..n |-> c]

\* What a paraphrase worker returns: None when the call raised, else the
\* stripped content.
ParaphraseResults ==
    {PyNone, PyStr(<<>>), PyStr(Rep("p", 20)), PyStr(Rep("p", 21))}

\* Variant: a paraphrase of exactly the limit length is accepted.
ParaphraseValidInclusive(r) ==
    r.kind = "str" /\ r.text # <<>> /\ Len(r.text) >= MinParaphraseLen

\* "if result and len(result) > 20"
ParaphraseValid(r) ==
    r.kind = "str" /\ r.text # <<>> /\ Len(r.text) > MinParaphraseLen

CollectParaphrase(ps, r) ==
    IF ParaphraseValid(r) THEN Append(ps, r.text) ELSE ps

\* paraphrases[:num_paraphrases]
ReturnedParaphrases(ps, n) ==
    SubSeq(ps, 1, IF Len(ps) < n THEN Len(ps) ELSE n)

\* What one paraphrase test (or the multi-turn baseline) meets: the value
\* returned by generate_reply and, when a reply exists, the evaluation
\* response.
NotCalled == [kind |-> "not_called", raw |-> <<>>]
TestInputs ==
    {[gen |-> NoneReply, resp |-> NotCalled], [gen |-> "", resp |-> NotCalled]}
        \cup {[gen |-> "a", resp |-> r] : r \in EvalResponses}

\* Variant: the reply is dropped whenever the evaluation gave no verdict.
test_single_paraphrase_drop(gen, resp) ==
    IF ReplyTruthy(gen)
    THEN LET ev == evaluate_email(resp)
         IN  IF EvaluationTruthy(ev) /\ ~ExtractRaises(ev.text)
             THEN [outcome |-> IF extract_goal_achievement_score(ev.text)
                               THEN "PASS" ELSE "FAIL",
                   reply |-> gen]
             ELSE [outcome |-> "FAIL", reply |-> NoneReply]
    ELSE [outcome |-> "FAIL", reply |-> NoneReply]

\* test_single_paraphrase / test_multi_turn_paraphrase: (outcome, reply).
test_single_paraphrase(gen, resp) ==
    IF ReplyTruthy(gen)
    THEN LET ev == evaluate_email(resp)
         IN  IF ev.kind = "raise"
             THEN [outcome |-> "FAIL", reply |-> NoneReply]
             ELSE IF EvaluationTruthy(ev)
             THEN IF ExtractRaises(ev.text)
                  THEN [outcome |-> "FAIL", reply |-> NoneReply]
                  ELSE [outcome |-> IF extract_goal_achievement_score(ev.text)
                                    THEN "PASS" ELSE "FAIL",
                        reply |-> gen]
             ELSE [outcome |-> "FAIL", reply |-> gen]
    ELSE [outcome |-> "FAIL", reply |-> NoneReply]

\* Variant: a failed reply generation is attempted a second time.
TestCallsRetry(gen) ==
    [reply |-> IF ReplyTruthy(gen) THEN 1 ELSE 2,
     eval |-> IF ReplyTruthy(gen) THEN 1 ELSE 0]

\* Calls made by one paraphrase test: one generate_reply, and one
\* evaluate_email when the reply is truthy.
TestCalls(gen) ==
    [reply |-> 1, eval |-> IF ReplyTruthy(gen) THEN 1 ELSE 0]

\* Multi-turn baseline (lines 582-590): the original outcome, or "raise" when
\* evaluate_email raises or extract_goal_achievement_score is handed None or
\* an empty text.
BaselineOutcome(gen, resp) ==
    IF ReplyTruthy(gen)
    THEN LET ev == evaluate_email(resp)
         IN  IF ev.kind # "str" \/ ExtractRaises(ev.text)
             THEN "raise"
             ELSE IF extract_goal_achievement_score(ev.text) THEN "PASS" ELSE "FAIL"
    ELSE "FAIL"

\* sum(1 for outcome in paraphrase_outcomes if outcome == original_outcome)
ConsistentOutcomes(outs, original) ==
    Cardinality({i \in DOMAIN outs : outs[i] = original})

\* Variant: the requested number of paraphrases is the denominator.
ConsistencyScoreRequested(outs, original) ==
    [num |-> ConsistentOutcomes(outs, original), den |-> num_paraphrases]

\* Variant: passes are counted whatever the original outcome is.
ConsistencyScorePasses(outs, original) ==
    [num |-> ConsistentOutcomes(outs, "PASS"), den |-> Len(outs)]

\* consistent_outcomes / len(paraphrase_outcomes) if paraphrase_outcomes else 0,
\* kept as an exact fraction.
ConsistencyScore(outs, original) ==
    IF outs # <<>>
    THEN [num |-> ConsistentOutcomes(outs, original), den |-> Len(outs)]
    ELSE [num |-> 0, den |-> 1]

\* Variant: the threshold itself is not consistent.
IsConsistentStrict(score) ==
    score.num * ThresholdDen > ThresholdNum * score.den

\* is_consistent = consistency_score >= 0.7
IsConsistent(score) ==
    score.num * ThresholdDen >= ThresholdNum * score.den

ValidatorInit ==
    /\ pc = "v_call"
    /\ v_multi \in BOOLEAN
    /\ num_paraphrases \in 1..MaxParaphrases
    /\ para_finished = <<>>
    /\ para_yielded = 0
    /\ paraphrases = <<>>
    /\ original_outcome = "PASS"
    /\ test_finished = <<>>
    /\ test_yielded = 0
    /\ paraphrase_outcomes = <<>>
    /\ paraphrase_replies = <<>>
    /\ v_para_calls = 0
    /\ v_reply_calls = 0
    /\ v_eval_calls = 0
    /\ v_result = [kind |-> "pending"]
    /\ AggregatorIdle
    /\ ParserIdle
    /\ PoolIdle
    /\ ScoreIdle
    /\ ClassifierIdle
    /\ StoreIdle

otherThanValidator == <<aggVars, parserVars, poolVars, scoreVars, clsVars, storeVars>>

\* _generate_paraphrases_concurrent submits num_paraphrases workers.
SubmitParaphrases ==
    /\ pc = "v_call"
    /\ pc' = "v_paraphrasing"
    /\ UNCHANGED <<valVars, otherThanValidator>>

\* generate_single_paraphrase returns r in one of the running workers.
ParaphraseFinish(r) ==
    /\ pc = "v_paraphrasing"
    /\ Len(para_finished) < num_paraphrases
    /\ para_finished' = Append(para_finished, r)
    /\ v_para_calls' = v_para_calls + 1
    /\ UNCHANGED <<pc, v_multi, num_paraphrases, para_yielded, paraphrases,
                   original_outcome, test_finished, test_yielded,
                   paraphrase_outcomes, paraphrase_replies, v_reply_calls,
                   v_eval_calls, v_result, otherThanValidator>>

\* One iteration of the as_completed loop of _generate_paraphrases_concurrent.
ParaphraseCollect ==
    /\ pc = "v_paraphrasing"
    /\ para_yielded < Len(para_finished)
    /\ para_yielded' = para_yielded + 1
    /\ paraphrases' = CollectParaphrase(paraphrases, para_finished[para_yielded + 1])
    /\ UNCHANGED <<pc, v_multi, num_paraphrases, para_finished, original_outcome,
                   test_finished, test_yielded, paraphrase_outcomes,
                   paraphrase_replies, v_para_calls, v_reply_calls, v_eval_calls,
                   v_result, otherThanValidator>>

ParaphrasesDone == pc = "v_paraphrasing" /\ para_yielded = num_paraphrases

\* "if not paraphrases: return None"
NoParaphrases ==
    /\ ParaphrasesDone
    /\ ReturnedParaphrases(paraphrases, num_paraphrases) = <<>>
    /\ v_result' = NoneResult
    /\ pc' = "v_returned"
    /\ UNCHANGED <<v_multi, num_paraphrases, para_finished, para_yielded,
                   paraphrases, original_outcome, test_finished, test_yielded,
                   paraphrase_outcomes, paraphrase_replies, v_para_calls,
                   v_reply_calls, v_eval_calls, otherThanValidator>>

\* Single-turn: original_outcome = "PASS", then the tests are submitted.
StartTests ==
    /\ ParaphrasesDone
    /\ ~v_multi
    /\ ReturnedParaphrases(paraphrases, num_paraphrases) # <<>>
    /\ paraphrases' = ReturnedParaphrases(paraphrases, num_paraphrases)
    /\ original_outcome' = "PASS"
    /\ pc' = "v_testing"
    /\ UNCHANGED <<v_multi, num_paraphrases, para_finished, para_yielded,
                   test_finished, test_yielded, paraphrase_outcomes,
                   paraphrase_replies, v_para_calls, v_reply_calls, v_eval_calls,
                   v_result, otherThanValidator>>

\* Multi-turn: EmailEvaluator() is constructed and the baseline is taken from
\* one reply to the original email and its evaluation; an exception here
\* reaches the outer except and None is returned.
Baseline(ctor_ok, in) ==
    /\ ParaphrasesDone
    /\ v_multi
    /\ ReturnedParaphrases(paraphrases, num_paraphrases) # <<>>
    /\ paraphrases' = ReturnedParaphrases(paraphrases, num_paraphrases)
    /\ IF ~ctor_ok
       THEN /\ v_result' = NoneResult
            /\ pc' = "v_returned"
            /\ UNCHANGED <<original_outcome, v_reply_calls, v_eval_calls>>
       ELSE /\ v_reply_calls' = v_reply_calls + 1
            /\ v_eval_calls' = v_eval_calls + (IF ReplyTruthy(in.gen) THEN 1 ELSE 0)
            /\ IF BaselineOutcome(in.gen, in.resp) = "raise"
               THEN /\ v_result' = NoneResult
                    /\ pc' = "v_returned"
                    /\ UNCHANGED original_outcome
               ELSE /\ original_outcome' = BaselineOutcome(in.gen, in.resp)
                    /\ pc' = "v_testing"
                    /\ UNCHANGED v_result
    /\ UNCHANGED <<v_multi, num_paraphrases, para_finished, para_yielded,
                   test_finished, test_yielded, paraphrase_outcomes,
                   paraphrase_replies, v_para_calls, otherThanValidator>>

TestedParaphrases == {test_finished[k].para : k \in DOMAIN test_finished}

\* The test of paraphrase i finishes in its worker.
TestFinish(i, in) ==
    /\ pc = "v_testing"
    /\ i \in DOMAIN paraphrases
    /\ i \notin TestedParaphrases
    /\ LET t == test_single_paraphrase(in.gen, in.resp)
       IN  test_finished' = Append(test_finished,
               [para |-> i, gen |-> in.gen, resp |-> in.resp,
                outcome |-> t.outcome, reply |-> t.reply])
    /\ v_reply_calls' = v_reply_calls + TestCalls(in.gen).reply
    /\ v_eval_calls' = v_eval_calls + TestCalls(in.gen).eval
    /\ UNCHANGED <<pc, v_multi, num_paraphrases, para_finished, para_yielded,
                   paraphrases, original_outcome, test_yielded,
                   paraphrase_outcomes, paraphrase_replies, v_para_calls,
                   v_result, otherThanValidator>>

\* One iteration of "for future in as_completed(future_to_paraphrase)".
TestCollect ==
    /\ pc = "v_testing"
    /\ test_yielded < Len(test_finished)
    /\ test_yielded' = test_yielded + 1
    /\ paraphrase_outcomes' =
          Append(paraphrase_outcomes, test_finished[test_yielded + 1].outcome)
    /\ paraphrase_replies' =
          Append(paraphrase_replies, test_finished[test_yielded + 1].reply)
    /\ UNCHANGED <<pc, v_multi, num_paraphrases, para_finished, para_yielded,
                   paraphrases, original_outcome, test_finished, v_para_calls,
                   v_reply_calls, v_eval_calls, v_result, otherThanValidator>>

\* Score, verdict, analysis summary and the returned dict.
ValidatorReturn ==
    /\ pc = "v_testing"
    /\ test_yielded = Len(paraphrases)
    /\ LET consistency_score == ConsistencyScore(paraphrase_outcomes, original_outcome)
           is_consistent == IsConsistent(consistency_score)
       IN  v_result' =
             [kind |-> "dict",
              consistency_score |-> consistency_score,
              paraphrases |-> paraphrases,
              original_outcome |-> original_outcome,
              paraphrase_outcomes |-> paraphrase_outcomes,
              paraphrase_replies |-> paraphrase_replies,
              is_consistent |-> is_consistent,
              analysis |-> [tested |-> Len(paraphrase_outcomes),
                            consistent |-> ConsistentOutcomes(paraphrase_outcomes,
                                                              original_outcome),
                            assessment |-> IF is_consistent THEN "CONSISTENT"
                                           ELSE "INCONSISTENT"]]
    /\ pc' = "v_returned"
    /\ UNCHANGED <<v_multi, num_paraphrases, para_finished, para_yielded,
                   paraphrases, original_outcome, test_finished, test_yielded,
                   paraphrase_outcomes, paraphrase_replies, v_para_calls,
                   v_reply_calls, v_eval_calls, otherThanValidator>>

ValidatorNext ==
    \/ SubmitParaphrases
    \/ \E r \in ParaphraseResults : ParaphraseFinish(r)
    \/ ParaphraseCollect
    \/ NoParaphrases
    \/ StartTests
    \/ \E ok \in BOOLEAN, in \in TestInputs : Baseline(ok, in)
    \/ \E i \in 1..MaxParaphrases, in \in TestInputs : TestFinish(i, in)
    \/ TestCollect
    \/ ValidatorReturn

ValidatorSpec == ValidatorInit /\ [][ValidatorNext]_vars

\* ------------------------------------------------------ consistency score
MaxOutcomes == 10        \* longest list of paraphrase outcomes scored

OutcomeLists == UNION {[1..n -> Outcomes] : n \in 1..MaxOutcomes}

ScoreInit ==
    /\ pc = "score"
    /\ score_outcomes \in OutcomeLists
    /\ score_original \in Outcomes
    /\ score_result = [kind |-> "pending"]
    /\ AggregatorIdle
    /\ ParserIdle
    /\ ValidatorIdle
    /\ PoolIdle
    /\ ClassifierIdle
    /\ StoreIdle

\* The tail of both validators: score, then verdict.
ComputeScore ==
    /\ pc = "score"
    /\ LET consistency_score == ConsistencyScore(score_outcomes, score_original)
       IN  score_result' = [kind |-> "dict",
                            consistency_score |-> consistency_score,
                            is_consistent |-> IsConsistent(consistency_score)]
    /\ pc' = "scored"
    /\ UNCHANGED <<score_outcomes, score_original, aggVars, parserVars, valVars, poolVars, clsVars, storeVars>>

ScoreNext == ComputeScore

ScoreSpec == ScoreInit /\ [][ScoreNext]_vars

\* ------------------------------------------------------------ worker pools
MaxCount == 9            \* largest requested count explored

PoolCap == 8             \* "min(..., 8)"

PoolSteps == {"reply_sampling", "paraphrase_generation", "paraphrase_testing"}

Min(a, b) == IF a < b THEN a ELSE b

\* max_workers handed to ThreadPoolExecutor by each step.
max_workers(step, count) ==
    IF step = "reply_sampling" THEN count ELSE Min(count, PoolCap)

PoolInit ==
    /\ pc = "pool_open"
    /\ pool_step \in PoolSteps
    /\ pool_count \in 1..MaxCount
    /\ pool_queued = 0
    /\ pool_running = 0
    /\ pool_done = 0
    /\ AggregatorIdle
    /\ ParserIdle
    /\ ValidatorIdle
    /\ ScoreIdle
    /\ ClassifierIdle
    /\ StoreIdle

\* executor.submit: one more task waits in the pool's queue.
SubmitTask ==
    /\ pc = "pool_open"
    /\ pool_queued + pool_running + pool_done < pool_count
    /\ pool_queued' = pool_queued + 1
    /\ UNCHANGED <<pc, pool_step, pool_count, pool_running, pool_done,
                   aggVars, parserVars, valVars, scoreVars, clsVars, storeVars>>

\* A pool thread takes a queued task; the pool never has more than
\* max_workers threads.
StartTask ==
    /\ pc = "pool_open"
    /\ pool_queued > 0
    /\ pool_running < max_workers(pool_step, pool_count)
    /\ pool_queued' = pool_queued - 1
    /\ pool_running' = pool_running + 1
    /\ UNCHANGED <<pc, pool_step, pool_count, pool_done,
                   aggVars, parserVars, valVars, scoreVars, clsVars, storeVars>>

\* The generation call of a running task returns or raises.
FinishTask ==
    /\ pc = "pool_open"
    /\ pool_running > 0
    /\ pool_running' = pool_running - 1
    /\ pool_done' = pool_done + 1
    /\ UNCHANGED <<pc, pool_step, pool_count, pool_queued,
                   aggVars, parserVars, valVars, scoreVars, clsVars, storeVars>>

\* Leaving the with block once every future has completed.
PoolShutdown ==
    /\ pc = "pool_open"
    /\ pool_done = pool_count
    /\ pc' = "pool_closed"
    /\ UNCHANGED <<poolVars, aggVars, parserVars, valVars, scoreVars, clsVars, storeVars>>

PoolNext ==
    \/ SubmitTask
    \/ StartTask
    \/ FinishTask
    \/ PoolShutdown

PoolSpec == PoolInit /\ [][PoolNext]_vars

\* ------------------------------------------- classifying the same replies twice
MaxClassified == 2       \* longest replies list classified twice

ReplyLists == UNION {[1..n -> ReplyTexts] : n \in 1..MaxClassified}

\* The outcomes _analyze_reply_outcomes can return for reps: the per-reply
\* verdicts, or the random draw of its outer except when the evaluator could
\* not be constructed.
ClassifyOutcomes(reps, stub, ready) ==
    IF ready
    THEN {[i \in DOMAIN reps |-> AnalyzeOne(stub[reps[i]]).outcome]}
    ELSE FallbackOutcomes(Len(reps))

ClassifierInit ==
    /\ pc = "classify_first"
    /\ cls_replies \in ReplyLists
    /\ cls_stub \in [ReplyTexts -> EvalResponses]
    /\ cls_ready \in BOOLEAN
    /\ cls_first = <<>>
    /\ cls_second = <<>>
    /\ AggregatorIdle
    /\ ParserIdle
    /\ ValidatorIdle
    /\ PoolIdle
    /\ ScoreIdle
    /\ StoreIdle

ClassifyFirst ==
    /\ pc = "classify_first"
    /\ cls_first' \in ClassifyOutcomes(cls_replies, cls_stub, cls_ready)
    /\ pc' = "classify_second"
    /\ UNCHANGED <<cls_replies, cls_stub, cls_ready, cls_second,
                   aggVars, parserVars, valVars, poolVars, scoreVars, storeVars>>

ClassifySecond ==
    /\ pc = "classify_second"
    /\ cls_second' \in ClassifyOutcomes(cls_replies, cls_stub, cls_ready)
    /\ pc' = "classified"
    /\ UNCHANGED <<cls_replies, cls_stub, cls_ready, cls_first,
                   aggVars, parserVars, valVars, poolVars, scoreVars, storeVars>>

ClassifierNext ==
    \/ ClassifyFirst
    \/ ClassifySecond

ClassifierSpec == ClassifierInit /\ [][ClassifierNext]_vars

\* ------------------------------------------- both engine entry points
EngineInit == Init \/ ValidatorInit

EngineNext == Next \/ ValidatorNext

EngineSpec == EngineInit /\ [][EngineNext]_vars

\* ------------------------------------------------ session manager tables
MaxRows == 2             \* most submission rows held at once

MAX_TURNS == 5
MULTI_TURN_LEVELS == {4}

Sessions == {"s1", "s2"}
StoreLevels == {3, 4}    \* a single-turn level and the multi-turn level
\* The levels each session plays in StoreSpec.
SessionLevels == {<<"s1", 3>>, <<"s1", 4>>, <<"s2", 4>>}
Contents == {"x", "y"}
NewEmails == {"x"}       \* what a new submission holds; an edit writes any of Contents

MaxOf(S) == CHOOSE m \in S : \A x \in S : x <= m
MinOf(S) == CHOOSE m \in S : \A x \in S : m <= x

\* Integer primary key of a new row: a key no row of the table holds. Keys
\* are opaque, so the smallest free one is taken.
NextRowId(rows) ==
    MinOf({k \in 1..(Cardinality(rows) + 1) : \A r \in rows : r.id # k})

LevelRows(d, s, l) == {r \in d.subs : r.session = s /\ r.level = l}
TurnRows(d, s, l, t) == {r \in LevelRows(d, s, l) : r.turn_number = t}
FutureRows(d, s, l, t) == {r \in LevelRows(d, s, l) : r.turn_number > t}
EvalsOf(d, rows) == {e \in d.evals : \E r \in rows : e.submission_id = r.id}

\* Each function below returns the tables after the call and the value
\* returned; ok = FALSE is the except branch (rollback). An evaluation result
\* is held without its own primary key, which nothing reads.
\* The nullable goal_achieved column of a submission: "null", "true", "false".
GoalColumn(goal) == IF goal THEN "true" ELSE "false"

save_email_submission(d, s, l, c, t, ok) ==
    IF ok
    THEN [db |-> [d EXCEPT !.subs = @ \cup
                     {[id |-> NextRowId(d.subs), session |-> s, level |-> l,
                       email_content |-> c, turn_number |-> t,
                       goal_achieved |-> "null"]}],
          ret |-> NextRowId(d.subs)]
    ELSE [db |-> d, ret |-> 0]

save_evaluation_result(d, submission_id, text, goal, ok) ==
    IF ok
    THEN [db |-> [d EXCEPT
                    !.subs = {IF r.id = submission_id
                              THEN [r EXCEPT !.goal_achieved = GoalColumn(goal)]
                              ELSE r : r \in @},
                    !.evals = @ \cup
                        {[submission_id |-> submission_id,
                          evaluation_text |-> text, goal_achieved |-> goal]}],
          ret |-> TRUE]
    ELSE [db |-> d, ret |-> FALSE]

handle_level_success(d, s, l, ok) ==
    IF ok
    THEN [db |-> [d EXCEPT !.comps = @ \cup {<<s, l>>}], ret |-> TRUE]
    ELSE [db |-> d, ret |-> FALSE]

handle_level_failure(d, s, l, ok) ==
    IF ok
    THEN [db |-> [d EXCEPT !.comps = {c \in @ : ~(c[1] = s /\ c[2] >= l)}],
          ret |-> TRUE]
    ELSE [db |-> d, ret |-> FALSE]

get_next_turn_number(d, s, l) ==
    IF LevelRows(d, s, l) # {}
    THEN MaxOf({r.turn_number : r \in LevelRows(d, s, l)}) + 1
    ELSE 1

is_level_complete_multi_turn(d, s, l) == <<s, l>> \in d.comps

\* Variant: the input is shown although the level is complete.
show_turn_status_when_complete(d, s, l) ==
    ~(get_next_turn_number(d, s, l) > MAX_TURNS)

\* TRUE when the email input is shown.
show_turn_status(d, s, l) ==
    /\ ~is_level_complete_multi_turn(d, s, l)
    /\ ~(get_next_turn_number(d, s, l) > MAX_TURNS)

clear_level_data(d, s, l, ok) ==
    IF ok
    THEN [db |-> [subs |-> d.subs \ LevelRows(d, s, l),
                  evals |-> d.evals \ EvalsOf(d, LevelRows(d, s, l)),
                  comps |-> d.comps \ {<<s, l>>}],
          ret |-> TRUE]
    ELSE [db |-> d, ret |-> FALSE]

\* Variant: the evaluation results of the deleted turns are left behind.
update_turn_keep_evaluations(d, s, l, t, c, ok) ==
    IF ok /\ TurnRows(d, s, l, t) # {}
    THEN LET target == CHOOSE r \in TurnRows(d, s, l, t) :
                           r.id = MinOf({q.id : q \in TurnRows(d, s, l, t)})
         IN  [db |-> [subs |-> ((d.subs \ {target}) \ FutureRows(d, s, l, t))
                                  \cup {[target EXCEPT !.email_content = c]},
                      evals |-> d.evals,
                      comps |-> d.comps \ {<<s, l>>}],
              ret |-> TRUE]
    ELSE [db |-> d, ret |-> FALSE]

\* .first() of the rows of turn t is taken to be the one with the lowest id.
update_turn_and_clear_future(d, s, l, t, c, ok) ==
    IF ok /\ TurnRows(d, s, l, t) # {}
    THEN LET target == CHOOSE r \in TurnRows(d, s, l, t) :
                           r.id = MinOf({q.id : q \in TurnRows(d, s, l, t)})
         IN  [db |-> [subs |-> ((d.subs \ {target}) \ FutureRows(d, s, l, t))
                                  \cup {[target EXCEPT !.email_content = c]},
                      evals |-> d.evals \ EvalsOf(d, FutureRows(d, s, l, t)),
                      comps |-> d.comps \ {<<s, l>>}],
              ret |-> TRUE]
    ELSE [db |-> d, ret |-> FALSE]

StoreInit ==
    /\ pc = "store"
    /\ StoreIdle
    /\ AggregatorIdle
    /\ ParserIdle
    /\ ValidatorIdle
    /\ PoolIdle
    /\ ScoreIdle
    /\ ClassifierIdle

otherThanStore == <<pc, aggVars, parserVars, valVars, poolVars, scoreVars, clsVars>>

\* The session-manager operations, each called with the arguments its
\* callers compute: turn 1 in a single-turn level (the default of
\* save_email_submission), get_next_turn_number in a multi-turn level.
SaveSubmission(s, l, c, ok) ==
    /\ Cardinality(db.subs) < MaxRows
    /\ LET t == IF l \in MULTI_TURN_LEVELS THEN get_next_turn_number(db, s, l) ELSE 1
       IN  db' = save_email_submission(db, s, l, c, t, ok).db
    /\ last_call' = NoCall
    /\ UNCHANGED <<session_state, otherThanStore>>

\* save_evaluation_result for a stored submission that has no evaluation yet.
SaveEvaluation(submission_id, goal, ok) ==
    /\ \E r \in db.subs : r.id = submission_id
    /\ \A e \in db.evals : e.submission_id # submission_id
    /\ db' = save_evaluation_result(db, submission_id, "evaluation", goal, ok).db
    /\ last_call' = NoCall
    /\ UNCHANGED <<session_state, otherThanStore>>

LevelSuccess(s, l, ok) ==
    /\ db' = handle_level_success(db, s, l, ok).db
    /\ last_call' = NoCall
    /\ UNCHANGED <<session_state, otherThanStore>>

LevelFailure(s, l, ok) ==
    /\ db' = handle_level_failure(db, s, l, ok).db
    /\ last_call' = NoCall
    /\ UNCHANGED <<session_state, otherThanStore>>

\* handle_turn_restart calls clear_level_data.
ClearLevel(s, l, ok) ==
    /\ l \in MULTI_TURN_LEVELS
    /\ db' = clear_level_data(db, s, l, ok).db
    /\ last_call' = NoCall
    /\ UNCHANGED <<session_state, otherThanStore>>

\* handle_turn_edit calls update_turn_and_clear_future; last_call keeps the
\* arguments of a call that returned True and whether it deleted a later
\* turn of a level that was complete.
UpdateTurn(s, l, t, c, ok) ==
    /\ l \in MULTI_TURN_LEVELS
    /\ LET r == update_turn_and_clear_future(db, s, l, t, c, ok)
       IN  /\ db' = r.db
           /\ last_call' =
                IF r.ret
                THEN [op |-> "update_turn_and_clear_future", ret |-> TRUE,
                      session |-> s, level |-> l, turn_number |-> t,
                      email_content |-> c,
                      cleared |-> /\ FutureRows(db, s, l, t) # {}
                                  /\ is_level_complete_multi_turn(db, s, l)]
                ELSE [op |-> "update_turn_and_clear_future", ret |-> FALSE]
    /\ UNCHANGED <<session_state, otherThanStore>>

StoreNext ==
    \/ \E sl \in SessionLevels, c \in NewEmails, ok \in BOOLEAN :
          SaveSubmission(sl[1], sl[2], c, ok)
    \/ \E i \in 1..MaxRows, goal \in BOOLEAN, ok \in BOOLEAN : SaveEvaluation(i, goal, ok)
    \/ \E sl \in SessionLevels, ok \in BOOLEAN : LevelSuccess(sl[1], sl[2], ok)
    \/ \E sl \in SessionLevels, ok \in BOOLEAN : LevelFailure(sl[1], sl[2], ok)
    \/ \E sl \in SessionLevels, ok \in BOOLEAN : ClearLevel(sl[1], sl[2], ok)
    \/ \E sl \in SessionLevels, t \in 1..MaxRows, c \in Contents, ok \in BOOLEAN :
          UpdateTurn(sl[1], sl[2], t, c, ok)

StoreSpec == StoreInit /\ [][StoreNext]_vars

\* --------------------------------------------- single-turn Send handler
MaxInline == 2           \* most submissions stored in InlineSpec

InlineSession == "s1"
InlineLevels == {1, 3, 5}
\* How far process_email_evaluation_user_mode_inline gets: an exception
\* before the session-state update, a falsy reply_result, a falsy evaluation,
\* or an evaluation whose goal achievement is extracted.
InlineOutcomes == {"raised", "no_reply", "no_evaluation", "evaluated"}

DbCompleted(d, s) == {c[2] : c \in {x \in d.comps : x[1] = s}}

\* Variant: the completed levels above the submitted one are kept.
UpdateSessionStateKeepHigher(ss, level, goal) ==
    [completed_levels |-> IF goal THEN ss.completed_levels \cup {level}
                          ELSE ss.completed_levels \ {level},
     level_evaluations |-> ss.level_evaluations \cup {level},
     level_emails |-> ss.level_emails \cup {level}]

\* The session-state updates: the email and the evaluation of the level are
\* stored, completed levels above it are removed with their evaluations and
\* emails, and the level is added on success and discarded on failure.
UpdateSessionState(ss, level, goal) ==
    LET levels_to_remove == {l \in ss.completed_levels : l > level}
        kept == ss.completed_levels \ levels_to_remove
    IN  [completed_levels |-> IF goal THEN kept \cup {level} ELSE kept \ {level},
         level_evaluations |-> (ss.level_evaluations \cup {level}) \ levels_to_remove,
         level_emails |-> (ss.level_emails \cup {level}) \ levels_to_remove]

\* Database persistence: nothing more is written when save_email_submission
\* returns None; the value save_evaluation_result returns is not looked at.
PersistInline(d, s, level, c, goal, ok1, ok2, ok3) ==
    LET saved == save_email_submission(d, s, level, c, 1, ok1)
    IN  IF saved.ret = 0
        THEN d
        ELSE LET evaluated == save_evaluation_result(saved.db, saved.ret,
                                                     "evaluation", goal, ok2).db
             IN  IF goal
                 THEN handle_level_success(evaluated, s, level, ok3).db
                 ELSE handle_level_failure(evaluated, s, level, ok3).db

InlineInit ==
    /\ pc = "inline"
    /\ StoreIdle
    /\ AggregatorIdle
    /\ ParserIdle
    /\ ValidatorIdle
    /\ PoolIdle
    /\ ScoreIdle
    /\ ClassifierIdle

\* Which database write of the persistence step fails, if any.
InlineWrites == {"ok", "no_submission", "no_evaluation", "no_completion"}

\* process_email_evaluation_user_mode_inline returning before the session
\* state is touched.
InlineStops(outcome) ==
    /\ Cardinality(db.subs) < MaxInline
    /\ outcome # "evaluated"
    /\ last_call' = [op |-> "process_email_evaluation_user_mode_inline",
                     outcome |-> outcome]
    /\ UNCHANGED <<session_state, db, otherThanStore>>

\* process_email_evaluation_user_mode_inline running to its end. majority is
\* the majority_outcome of generate_reply_with_majority; goal is what
\* extract_goal_achievement_score finds in the evaluation of step 3, a
\* separate evaluate_email call on the selected reply.
InlineEvaluates(level, majority, goal, writes) ==
    /\ Cardinality(db.subs) < MaxInline
    /\ session_state' = UpdateSessionState(session_state, level, goal)
    /\ db' = PersistInline(db, InlineSession, level, "x", goal,
                           writes # "no_submission", writes # "no_evaluation",
                           writes # "no_completion")
    /\ last_call' =
         [op |-> "process_email_evaluation_user_mode_inline",
          outcome |-> "evaluated",
          level |-> level,
          majority_outcome |-> majority,
          goal_achieved |-> goal,
          writes |-> writes,
          removed |-> {l \in session_state.completed_levels : l > level}]
    /\ UNCHANGED otherThanStore

InlineNext ==
    \/ \E outcome \in InlineOutcomes : InlineStops(outcome)
    \/ \E level \in InlineLevels, majority \in Outcomes, goal \in BOOLEAN,
          writes \in InlineWrites : InlineEvaluates(level, majority, goal, writes)

InlineSpec == InlineInit /\ [][InlineNext]_vars

\* ----------------------------------------------- multi-turn Send handler
GameLevels == {0, 1, 2, 3, 4, 5}     \* the whole-numbered levels of the game
TurnNumbers == 1..(MAX_TURNS + 1)
MultiTurnLevel == 4

\* What process_email_evaluation_user_mode_multi_turn meets: whether the
\* recipient prompt loads, each database write succeeds, evaluate_email gives
\* an evaluation, that evaluation says the goal is achieved, and the results
\* are displayed without an exception.
MultiTurnInputs ==
    [prompt_ok : BOOLEAN, save_ok : BOOLEAN, eval_ok : BOOLEAN, goal : BOOLEAN,
     result_ok : BOOLEAN, level_ok : BOOLEAN, display_ok : BOOLEAN,
     fallback_ok : BOOLEAN]

AllSucceed(in) ==
    /\ in.prompt_ok
    /\ in.save_ok
    /\ in.eval_ok
    /\ in.result_ok
    /\ in.level_ok
    /\ in.display_ok
    /\ in.fallback_ok

\* The except handler of the function: it saves a minimal evaluation for
\* submission_id. submission_id = 0 stands for the local variable not being
\* bound yet: reading it raises inside the handler's own try, and nothing is
\* saved.
FailureHandler(d, submission_id, ok) ==
    IF submission_id = 0
    THEN d
    ELSE save_evaluation_result(d, submission_id, "fallback", FALSE, ok).db

\* Session state after the goal is achieved in a multi-turn level.
MultiTurnSuccessState(ss, level) ==
    LET levels_to_remove == {l \in ss.completed_levels : l > level}
    IN  [completed_levels |-> (ss.completed_levels \ levels_to_remove) \cup {level},
         level_evaluations |-> (ss.level_evaluations \ levels_to_remove) \cup {level},
         level_emails |-> ss.level_emails \ levels_to_remove]

\* Steps 8 and 9 and the except handler around them.
MultiTurnFinish(d, ss, s, level, t, submission_id, goal, in) ==
    LET success == handle_level_success(d, s, level, in.level_ok)
        handled ==
            IF goal
            THEN [db |-> success.db, session_state |-> MultiTurnSuccessState(ss, level)]
            ELSE IF t >= MAX_TURNS
            THEN [db |-> handle_level_failure(d, s, level, in.level_ok).db,
                  session_state |-> [ss EXCEPT !.level_evaluations = @ \cup {level}]]
            ELSE [db |-> d, session_state |-> ss]
    IN  IF goal /\ ~success.ret
        THEN [db |-> d, session_state |-> ss, outcome |-> "no_completion"]
        ELSE IF in.display_ok
        THEN [db |-> handled.db, session_state |-> handled.session_state,
              outcome |-> "done"]
        ELSE [db |-> FailureHandler(handled.db, submission_id, in.fallback_ok),
              session_state |-> handled.session_state, outcome |-> "raised"]

\* The whole function. For turn_number <= MAX_TURNS the call of
\* generate_reply_with_majority passes rubric=rubric before the local rubric is
\* assigned: evaluating the argument raises UnboundLocalError, and the except
\* handler runs with submission_id unbound as well.
process_email_evaluation_user_mode_multi_turn(d, ss, s, level, t, in) ==
    IF ~in.prompt_ok
    THEN [db |-> d, session_state |-> ss, outcome |-> "no_prompt"]
    ELSE IF ~(t > MAX_TURNS)
    THEN [db |-> FailureHandler(d, 0, in.fallback_ok), session_state |-> ss,
          outcome |-> "raised"]
    ELSE LET saved == save_email_submission(d, s, level, "x", t, in.save_ok)
             goal == in.eval_ok /\ in.goal
             text == IF in.eval_ok THEN "evaluation" ELSE "fallback"
             stored == save_evaluation_result(saved.db, saved.ret, text, goal,
                                              in.result_ok)
         IN  IF saved.ret = 0
             THEN [db |-> d, session_state |-> ss, outcome |-> "no_submission"]
             ELSE IF ~stored.ret
             THEN [db |-> saved.db, session_state |-> ss, outcome |-> "no_result"]
             ELSE MultiTurnFinish(stored.db, ss, s, level, t, saved.ret, goal, in)

MultiTurnInit ==
    /\ pc = "multi_turn"
    /\ StoreIdle
    /\ AggregatorIdle
    /\ ParserIdle
    /\ ValidatorIdle
    /\ PoolIdle
    /\ ScoreIdle
    /\ ClassifierIdle

\* One call of the function.
MultiTurnCall(s, t, in) ==
    /\ Cardinality(db.subs) < MaxRows
    /\ LET r == process_email_evaluation_user_mode_multi_turn(
                    db, session_state, s, MultiTurnLevel, t, in)
       IN  /\ db' = r.db
           /\ session_state' = r.session_state
           /\ last_call' = [op |-> "process_email_evaluation_user_mode_multi_turn",
                            session |-> s, turn_number |-> t,
                            outcome |-> r.outcome, all_ok |-> AllSucceed(in)]
    /\ UNCHANGED otherThanStore

MultiTurnNext ==
    \E t \in TurnNumbers, in \in MultiTurnInputs : MultiTurnCall(InlineSession, t, in)

MultiTurnSpec == MultiTurnInit /\ [][MultiTurnNext]_vars

\* ------------------------------------------------ multi-turn level screen
unlock_levels_up_to(d, s, target_level, ok) ==
    IF ok
    THEN [db |-> [d EXCEPT !.comps =
                      @ \cup {<<s, l>> : l \in {k \in GameLevels : k < target_level}}],
          ret |-> TRUE]
    ELSE [db |-> d, ret |-> FALSE]

\* The completions of the session are replaced by the given levels.
save_session_progress(d, s, completed_levels) ==
    [d EXCEPT !.comps = {c \in @ : c[1] # s} \cup {<<s, l>> : l \in completed_levels}]

\* Levels with a stored submission, and levels whose latest submission (the
\* one with the highest id) has an evaluation result.
LoadedEmails(d, s) == {r.level : r \in {q \in d.subs : q.session = s}}
LoadedEvaluations(d, s) ==
    {l \in LoadedEmails(d, s) :
        \E r \in LevelRows(d, s, l) :
            /\ r.id = MaxOf({q.id : q \in LevelRows(d, s, l)})
            /\ EvalsOf(d, {r}) # {}}

TurnInit ==
    /\ pc = "turns"
    /\ StoreIdle
    /\ AggregatorIdle
    /\ ParserIdle
    /\ ValidatorIdle
    /\ PoolIdle
    /\ ScoreIdle
    /\ ClassifierIdle

\* _handle_url_parameters for ?session=s&gang_level=target_level: the levels
\* below the target are unlocked, the session state and the completion table
\* are merged, and the merged progress is saved.
UrlNavigation(s, target_level, ok) ==
    /\ LET unlocked == unlock_levels_up_to(db, s, target_level, ok)
           all_completed_levels ==
               session_state.completed_levels \cup DbCompleted(unlocked.db, s)
       IN  IF unlocked.ret
           THEN /\ db' = save_session_progress(unlocked.db, s, all_completed_levels)
                /\ session_state' =
                     [completed_levels |-> all_completed_levels,
                      level_evaluations |-> session_state.level_evaluations
                                               \cup LoadedEvaluations(db, s),
                      level_emails |-> session_state.level_emails
                                          \cup LoadedEmails(db, s)]
           ELSE UNCHANGED <<db, session_state>>
    /\ last_call' = NoCall
    /\ UNCHANGED otherThanStore

\* handle_multi_turn_level: the Send button exists only when show_turn_status
\* shows the input, and the turn submitted is get_next_turn_number.
SendTurn(s, in) ==
    /\ show_turn_status(db, s, MultiTurnLevel)
    /\ MultiTurnCall(s, get_next_turn_number(db, s, MultiTurnLevel), in)

TurnNext ==
    \/ \E s \in Sessions, target_level \in GameLevels, ok \in BOOLEAN :
          UrlNavigation(s, target_level, ok)
    \/ \E s \in Sessions, in \in MultiTurnInputs : SendTurn(s, in)

TurnSpec == TurnInit /\ [][TurnNext]_vars

\* ------------------------------------------------------------------ claims
Returned == pc \in {"returned", "done"}
HasResult == result.kind = "dict"
OtherOutcome(o) == IF o = "PASS" THEN "FAIL" ELSE "PASS"
Occurrences(seq, x) == Cardinality({i \in DOMAIN seq : seq[i] = x})

\* C1: in every returned result the count of the reported majority outcome
\* in outcome_counts is at least the count of every other outcome.
C1_MajorityCountIsMax ==
    HasResult =>
        \A o \in Outcomes :
            CountOf(result.outcome_counts, o)
                <= CountOf(result.outcome_counts, result.majority_outcome)

\* C1 witness: a result where the first verdict counted is the minority.
C1_Witness ==
    /\ HasResult
    /\ result.outcome_analysis.outcomes[1] = "PASS"
    /\ CountOf(result.outcome_counts, "PASS") >= 1
    /\ CountOf(result.outcome_counts, "FAIL") > CountOf(result.outcome_counts, "PASS")
    /\ result.majority_outcome = "FAIL"

\* C2: the selected reply is a surviving reply whose own verdict (same index
\* of outcome_analysis['outcomes']) is the reported majority outcome.
C2_SelectedReplyHasMajorityVerdict ==
    HasResult =>
        \E i \in DOMAIN result.all_replies :
            /\ result.all_replies[i] = result.reply
            /\ result.outcome_analysis.outcomes[i] = result.majority_outcome

\* C2 witness: a result with a minority reply whose text differs from the
\* selected one.
C2_Witness ==
    /\ HasResult
    /\ \E j \in DOMAIN result.all_replies :
          /\ result.outcome_analysis.outcomes[j] # result.majority_outcome
          /\ result.all_replies[j] # result.reply

\* C3 (as claimed): a sample has verdict PASS only if an evaluation text was
\* obtained for it and its final token normalizes to "yes"; on the outer
\* failure path every sample is FAIL.
C3_PassOnlyOnYesEvaluation ==
    \A i \in DOMAIN outcomes :
        outcomes[i] = "PASS" =>
            /\ evaluations[i].diag = ""
            /\ ~ExtractRaises(evaluations[i].text)
            /\ FinalWord(evaluations[i].text) = YesWord

\* C4: when every reply-generation call fails, no classification call is
\* made, None is returned and the caller reports the failure.
AllGenerationsFailed ==
    /\ Len(finished) = num_samples
    /\ \A i \in DOMAIN finished : finished[i] \in {NoneReply, ""}

C4_AllFailedIsHardFailure ==
    AllGenerationsFailed =>
        /\ eval_calls = 0
        /\ outcomes = <<>>
        /\ ~HasResult
        /\ pc \notin {"evaluating", "tally"}
        /\ Returned => result = NoneResult
        /\ pc = "done" => caller = "failed_to_generate"

\* C4 witness: several workers, all failed, the caller has returned.
C4_Witness ==
    /\ pc = "done"
    /\ num_samples >= 2
    /\ AllGenerationsFailed
    /\ result = NoneResult
    /\ caller = "failed_to_generate"

\* C5: failed calls are dropped one by one; whenever some call succeeds a
\* result is returned whose all_replies is the multiset of the successful
\* calls' replies.
C5_FailedCallsDropped ==
    /\ pc = "sampling" =>
          \A t \in ReplyTexts :
              Occurrences(replies, t) = Cardinality({i \in 1..yielded : finished[i] = t})
    /\ (Returned /\ \E i \in DOMAIN finished : finished[i] \in ReplyTexts) =>
          /\ HasResult
          /\ Len(result.all_replies)
                = Cardinality({i \in DOMAIN finished : finished[i] \in ReplyTexts})
          /\ \A t \in ReplyTexts :
                Occurrences(result.all_replies, t) = Occurrences(finished, t)

\* C5 witness: a call failed between two calls that returned the same reply
\* text; a result was returned.
C5_Witness ==
    /\ Returned
    /\ HasResult
    /\ \E i, j, k \in DOMAIN finished :
          /\ i < j /\ j < k
          /\ finished[i] \in ReplyTexts
          /\ finished[j] \in {NoneReply, ""}
          /\ finished[k] = finished[i]
    /\ Len(result.all_replies) >= 2

\* C6: a reply whose evaluation raised or returned no content has verdict
\* FAIL and a diagnostic entry; the aggregation still returns a result and
\* the other replies keep the verdict of their own evaluation text.
PerReplyDiagnostics ==
    {"Evaluation failed: error", "Evaluation failed - no content returned"}

C6_EvaluationFailureIsFail ==
    /\ Len(outcomes) = Len(evaluations)
    /\ \A i \in DOMAIN evaluations :
          /\ evaluations[i].diag \in PerReplyDiagnostics => outcomes[i] = "FAIL"
          /\ evaluations[i] = EvalText(YesText) => outcomes[i] = "PASS"
          /\ evaluations[i] = EvalText(NoText) => outcomes[i] = "FAIL"
    /\ (Returned /\ \E i \in DOMAIN evaluations :
                        evaluations[i].diag \in PerReplyDiagnostics) => HasResult

\* C6 witness: both kinds of evaluation failure, followed by a reply that was
\* classified PASS on its own evaluation.
C6_Witness ==
    /\ HasResult
    /\ \E i, j, k \in DOMAIN evaluations :
          /\ i < k /\ j < k
          /\ evaluations[i].diag = "Evaluation failed: error"
          /\ evaluations[j].diag = "Evaluation failed - no content returned"
          /\ evaluations[k] = EvalText(YesText)
          /\ outcomes[k] = "PASS"

\* ---- verdict parser (ParserSpec)
Raw == eval_response.raw
AllWhitespace(t) == \A i \in DOMAIN t : t[i] \in Whitespace
IsYesAt(t, i) ==
    /\ i + 2 <= Len(t)
    /\ t[i] \in {"y", "Y"}
    /\ t[i + 1] \in {"e", "E"}
    /\ t[i + 2] \in {"s", "S"}

\* The text ends with yes/Yes/YES..., followed only by punctuation and then
\* whitespace, and preceded only by punctuation back to `from`.
YesTokenFrom(t, from) ==
    \E i \in from..(Len(t) - 2) :
        /\ IsYesAt(t, i)
        /\ \A k \in from..(i - 1) : t[k] \in Punctuation
        /\ \E m \in (i + 2)..Len(t) :
              /\ \A k \in (i + 3)..m : t[k] \in Punctuation
              /\ \A k \in (m + 1)..Len(t) : t[k] \in Whitespace

\* ... where the token starts exactly at `from`.
TokenStart(t, from) == from = 1 \/ t[from - 1] \in Whitespace

Tie(outs) == Occurrences(outs, "PASS") = Occurrences(outs, "FAIL")

\* Position in the verdict list at which outcome o reaches count c.
ReachIndex(outs, o, c) ==
    CHOOSE n \in DOMAIN outs :
        /\ outs[n] = o
        /\ Cardinality({i \in 1..n : outs[i] = o}) = c

\* C8 (as claimed): on a tie the majority outcome is the outcome that was
\* first to reach the tied count while the verdicts were counted in order.
C8_FirstToReachTiedCount ==
    (HasResult /\ Tie(result.outcome_analysis.outcomes)) =>
        LET outs == result.outcome_analysis.outcomes
            c == Occurrences(outs, "PASS")
            m == result.majority_outcome
        IN  ReachIndex(outs, m, c) < ReachIndex(outs, OtherOutcome(m), c)

\* C8 (amended): on a tie the majority outcome is the outcome that entered
\* outcome_counts first, i.e. the first to reach a count of one, even when
\* the other outcome reached the tied count earlier.
C8_FirstInsertedWinsTie ==
    (HasResult /\ Tie(result.outcome_analysis.outcomes)) =>
        LET outs == result.outcome_analysis.outcomes
            m == result.majority_outcome
        IN  /\ result.outcome_counts[1].outcome = m
            /\ ReachIndex(outs, m, 1) < ReachIndex(outs, OtherOutcome(m), 1)

\* C8 witness: verdicts PASS, FAIL, FAIL, PASS give PASS although FAIL
\* reached two first.
C8_Witness ==
    /\ HasResult
    /\ result.outcome_analysis.outcomes = <<"PASS", "FAIL", "FAIL", "PASS">>
    /\ result.majority_outcome = "PASS"

\* C9: on a tie the majority outcome is the verdict of the first surviving
\* reply.
C9_FirstVerdictWinsTie ==
    (HasResult /\ Tie(result.outcome_analysis.outcomes)) =>
        result.majority_outcome = result.outcome_analysis.outcomes[1]

\* C9 witness: a two-two tie whose first verdict is FAIL.
C9_Witness ==
    /\ HasResult
    /\ result.outcome_analysis.outcomes = <<"FAIL", "PASS", "PASS", "FAIL">>
    /\ result.majority_outcome = "FAIL"

\* ---- completion order
CompletionOrders(n) == {p \in [1..n -> 1..n] : \A i, j \in 1..n : i # j => p[i] # p[j]}
Reorder(seq, p) == [i \in DOMAIN seq |-> seq[p[i]]]

\* C10 (as claimed): for the same (reply, verdict) results, every completion
\* order of the workers gives the same majority_outcome and outcome_counts.
C10_OrderIndependentVerdict ==
    HasResult =>
        LET outs == result.outcome_analysis.outcomes
        IN  \A p \in CompletionOrders(Len(outs)) :
                LET counts == OutcomeCounts(Reorder(outs, p))
                IN  /\ MajorityOutcome(counts) = result.majority_outcome
                    /\ \A o \in Outcomes :
                          CountOf(counts, o) = CountOf(result.outcome_counts, o)

\* ---- tally and audit trail
\* C11: outcome_counts maps each outcome to the number of surviving replies
\* classified with it, the counts sum to the number of surviving replies (at
\* most num_samples), and an outcome with a strict majority is reported.
C11_CountsMatchVerdicts ==
    HasResult =>
        LET outs == result.outcome_analysis.outcomes
            counts == result.outcome_counts
        IN  /\ \A o \in Outcomes : CountOf(counts, o) = Occurrences(outs, o)
            /\ \A i, j \in DOMAIN counts :
                  /\ counts[i].count >= 1
                  /\ i # j => counts[i].outcome # counts[j].outcome
            /\ CountOf(counts, "PASS") + CountOf(counts, "FAIL") = Len(result.all_replies)
            /\ Len(result.all_replies) <= num_samples
            /\ \A o \in Outcomes :
                  2 * Occurrences(outs, o) > Len(outs) => result.majority_outcome = o

\* C11 witness: two PASS and one FAIL, the FAIL counted first.
C11_Witness ==
    /\ HasResult
    /\ result.outcome_analysis.outcomes = <<"FAIL", "PASS", "PASS">>
    /\ result.majority_outcome = "PASS"
    /\ CountOf(result.outcome_counts, "PASS") = 2
    /\ CountOf(result.outcome_counts, "FAIL") = 1

\* C12: replies, verdicts and evaluation entries have the same length and
\* entry i of each belongs to reply i: the i-th evaluation call was made for
\* replies[i] and outcomes[i], evaluations[i] are what that call gave; on the
\* fallback path every reply has a verdict and a fallback entry.
C12_AuditTrailAligned ==
    /\ Len(outcomes) = Len(evaluations)
    /\ Len(outcomes) <= Len(replies)
    /\ pc \in {"tally", "returned", "done"} /\ replies # <<>> =>
          Len(outcomes) = Len(replies)
    /\ HasResult =>
          /\ result.outcome_analysis.replies = result.all_replies
          /\ Len(result.outcome_analysis.outcomes) = Len(result.all_replies)
          /\ Len(result.outcome_analysis.evaluations) = Len(result.all_replies)
    /\ \A i \in DOMAIN eval_log :
          /\ i <= Len(outcomes)
          /\ eval_log[i].reply = replies[i]
          /\ eval_log[i].resp = PromptError =>
                outcomes[i] = "FAIL" /\ evaluations[i].diag = "Evaluation failed: error"
          /\ eval_log[i].resp = ApiError =>
                /\ outcomes[i] = "FAIL"
                /\ evaluations[i].diag = "Evaluation failed - no content returned"
          /\ eval_log[i].resp = Content(YesText) =>
                outcomes[i] = "PASS" /\ evaluations[i] = EvalText(YesText)
          /\ eval_log[i].resp = Content(NoText) =>
                outcomes[i] = "FAIL" /\ evaluations[i] = EvalText(NoText)
    /\ (eval_log = <<>> /\ outcomes # <<>>) =>
          /\ Len(evaluations) = Len(replies)
          /\ \A i \in DOMAIN evaluations :
                evaluations[i].diag = "Fallback evaluation (analysis failed)"

\* C12 witness: three different replies met a failed evaluation, a pass and a
\* fail, and the result carries the three lists.
C12_Witness ==
    /\ HasResult
    /\ Len(eval_log) = 3
    /\ eval_log[1].reply # eval_log[2].reply
    /\ eval_log[1].resp = ApiError
    /\ eval_log[2].resp = Content(YesText)
    /\ eval_log[3].resp = Content(NoText)

\* C19: no classification call, tally, pick or return happens while a reply
\* worker is still running: all workers have finished and been yielded first.
C19_WorkersJoinedBeforeClassification ==
    (pc \in {"evaluating", "tally", "returned", "done"}
        \/ eval_calls > 0 \/ outcomes # <<>> \/ result.kind # "pending") =>
        /\ RunningWorkers = 0
        /\ Len(finished) = num_samples
        /\ yielded = num_samples
        /\ HasResult => Len(outcomes) = Len(replies)

\* C19 witness: three or more workers, one of them failed, a reply was picked.
C19_Witness ==
    /\ HasResult
    /\ num_samples >= 3
    /\ \E i \in DOMAIN finished : finished[i] = NoneReply
    /\ eval_calls >= 2

\* C13: the consistency score is a fraction in [0,1] and is_consistent holds
\* exactly when the score is at least 0.70, the value 0.70 itself included.
C13_ScoreInUnitRangeAndThreshold ==
    score_result.kind = "dict" =>
        LET sc == score_result.consistency_score
        IN  /\ sc.den > 0
            /\ 0 <= sc.num
            /\ sc.num <= sc.den
            /\ score_result.is_consistent <=> (100 * sc.num >= 70 * sc.den)

\* 7 of 10 paraphrases reproduce the original outcome: consistent.
C13_Witness ==
    /\ score_result.kind = "dict"
    /\ Len(score_outcomes) = 10
    /\ Occurrences(score_outcomes, score_original) = 7
    /\ score_result.is_consistent

ValidatorReturned == pc = "v_returned" /\ v_result.kind = "dict"

\* The validator is documented to run after the email passed the majority
\* vote, so the caller's majority verdict for the original email is PASS.
CallerMajority == "PASS"

SurvivingParaphrases(fin) ==
    {k \in DOMAIN fin : fin[k].kind = "str" /\ Len(fin[k].text) > 20}

\* C15: every kept paraphrase is longer than 20 characters, every other
\* worker result is dropped, no paraphrase call is repeated, and neither the
\* paraphrases nor the reported outcomes outnumber the requested count.
C15_ParaphrasesLongAndBounded ==
    /\ \A i \in DOMAIN paraphrases : Len(paraphrases[i]) > 20
    /\ Len(paraphrases)
          = Cardinality(SurvivingParaphrases(SubSeq(para_finished, 1, para_yielded)))
    /\ Len(paraphrases) <= num_paraphrases
    /\ Len(paraphrase_outcomes) <= num_paraphrases
    /\ v_para_calls <= num_paraphrases
    /\ ValidatorReturned => Len(v_result.paraphrase_outcomes) <= num_paraphrases

\* One call failed, one returned exactly 20 characters, one returned 21.
C15_Witness ==
    /\ ValidatorReturned
    /\ num_paraphrases = 3
    /\ \E i, j, k \in DOMAIN para_finished :
          /\ para_finished[i] = PyNone
          /\ para_finished[j] = PyStr(Rep("p", 20))
          /\ para_finished[k] = PyStr(Rep("p", 21))
    /\ Len(v_result.paraphrases) = 1

\* C16: validate_email_consistency returns None exactly when no paraphrase
\* survived; with k >= 1 survivors it tests those k, reports k outcomes and
\* divides by k.
C16_NoneIffNoSurvivor ==
    (pc = "v_returned" /\ ~v_multi) =>
        LET k == Cardinality(SurvivingParaphrases(para_finished))
        IN  /\ (v_result = NoneResult) <=> (k = 0)
            /\ k >= 1 =>
                  /\ v_result.kind = "dict"
                  /\ Len(v_result.paraphrases) = k
                  /\ Len(v_result.paraphrase_outcomes) = k
                  /\ v_result.consistency_score.den = k

\* Two of three requested paraphrases survive: the denominator is 2.
C16_Witness ==
    /\ ValidatorReturned
    /\ ~v_multi
    /\ num_paraphrases = 3
    /\ Cardinality(SurvivingParaphrases(para_finished)) = 2
    /\ v_result.consistency_score.den = 2

GenerationFailed(t) == ~ReplyTruthy(t.gen)
EvaluationRaised(t) ==
    /\ ReplyTruthy(t.gen)
    /\ \/ evaluate_email(t.resp).kind = "raise"
       \/ EvaluationTruthy(evaluate_email(t.resp))
            /\ ExtractRaises(evaluate_email(t.resp).text)
EvaluationEmpty(t) ==
    /\ ReplyTruthy(t.gen)
    /\ evaluate_email(t.resp).kind # "raise"
    /\ ~EvaluationTruthy(evaluate_email(t.resp))

AllTestsCounted ==
    ValidatorReturned =>
        /\ Len(v_result.paraphrase_outcomes) = Len(v_result.paraphrases)
        /\ Len(v_result.paraphrase_replies) = Len(v_result.paraphrases)
        /\ v_result.consistency_score.den = Len(v_result.paraphrases)
        /\ ~v_multi => v_reply_calls = Len(v_result.paraphrases)

\* C17 as stated: a test whose generation fails, or whose evaluation fails or
\* raises, is recorded as FAIL with an absent reply.
C17_FailedTestHasNoReply ==
    /\ \A k \in DOMAIN test_finished :
          LET t == test_finished[k]
          IN  (GenerationFailed(t) \/ EvaluationRaised(t) \/ EvaluationEmpty(t)) =>
                  t.outcome = "FAIL" /\ t.reply = NoneReply
    /\ AllTestsCounted

\* C17: a test whose generation fails or whose evaluation raises is FAIL with
\* an absent reply; a test whose evaluation returns nothing is FAIL but keeps
\* its reply; each is tested once and counted, and all paraphrases are tested.
C17_FailedTestIsFail ==
    /\ \A k \in DOMAIN test_finished :
          LET t == test_finished[k]
          IN  /\ (GenerationFailed(t) \/ EvaluationRaised(t)) =>
                    t.outcome = "FAIL" /\ t.reply = NoneReply
              /\ EvaluationEmpty(t) => t.outcome = "FAIL" /\ t.reply = t.gen
    /\ AllTestsCounted

\* Three tests: generation failed, evaluation returned nothing, evaluation
\* raised; the score still has denominator 3.
C17_Witness ==
    /\ ValidatorReturned
    /\ \E i, j, k \in DOMAIN test_finished :
          /\ GenerationFailed(test_finished[i])
          /\ EvaluationEmpty(test_finished[j])
          /\ EvaluationRaised(test_finished[k])
    /\ v_result.paraphrase_outcomes = <<"FAIL", "FAIL", "FAIL">>
    /\ v_result.consistency_score.den = 3

TruthyTests == {k \in DOMAIN test_finished : ReplyTruthy(test_finished[k].gen)}

\* C18: generate_reply_with_majority issues exactly num_samples reply calls
\* and at most one evaluation per surviving reply; validate_email_consistency
\* issues exactly num_paraphrases paraphrase calls, then exactly one reply
\* call per surviving paraphrase and at most one evaluation per reply.
C18_NoCallReissued ==
    /\ gen_calls = Len(finished)
    /\ gen_calls <= num_samples
    /\ pc \in {"evaluating", "tally", "returned", "done"} => gen_calls = num_samples
    /\ eval_calls <= Len(replies)
    /\ v_para_calls = Len(para_finished)
    /\ v_para_calls <= num_paraphrases
    /\ pc \in {"v_testing", "v_returned"} => v_para_calls = num_paraphrases
    /\ ~v_multi =>
          /\ v_reply_calls = Len(test_finished)
          /\ v_reply_calls <= Len(paraphrases)
          /\ v_eval_calls = Cardinality(TruthyTests)
          /\ ValidatorReturned => v_reply_calls = Len(v_result.paraphrases)

\* A single-turn validation in which one reply generation failed.
C18_Witness ==
    /\ ValidatorReturned
    /\ ~v_multi
    /\ Len(v_result.paraphrases) = 2
    /\ \E k \in DOMAIN test_finished : test_finished[k].gen = NoneReply
    /\ v_reply_calls = 2
    /\ v_eval_calls = 1
    /\ v_para_calls = num_paraphrases

\* C20 as stated: in each concurrent step no more than min(requested count, 8)
\* generation calls run at the same time.
C20_ConcurrencyCapped ==
    pool_running <= Min(pool_count, 8)

\* What validate_email_consistency returns on the paraphrase outcomes outs.
SingleTurnScore(outs) == ConsistencyScore(outs, "PASS")

\* C21 as stated: on the same model outputs the multi-turn validator returns
\* a result whenever the single-turn one does (some paraphrase survived), with
\* the same original outcome, score and verdict.
C21_MultiTurnEqualsSingleTurn ==
    (pc = "v_returned" /\ v_multi) =>
        /\ Cardinality(SurvivingParaphrases(para_finished)) >= 1 =>
              v_result.kind = "dict"
        /\ v_result.kind = "dict" =>
              /\ v_result.original_outcome = "PASS"
              /\ v_result.consistency_score
                    = SingleTurnScore(v_result.paraphrase_outcomes)
              /\ v_result.is_consistent
                    = IsConsistent(SingleTurnScore(v_result.paraphrase_outcomes))

\* The finished test of paraphrases[i].
TestOf(i) ==
    test_finished[CHOOSE k \in DOMAIN test_finished : test_finished[k].para = i]

\* C26 as stated: in the result, paraphrase_outcomes[i] and
\* paraphrase_replies[i] are the outcome and reply obtained for paraphrases[i].
C26_ParaphraseListsAligned ==
    ValidatorReturned =>
        \A i \in DOMAIN v_result.paraphrases :
            /\ v_result.paraphrase_outcomes[i] = TestOf(i).outcome
            /\ v_result.paraphrase_replies[i] = TestOf(i).reply

\* C22 as stated: classifying the same replies twice against the same
\* deterministic stub yields the same verdicts, on the failure paths too.
C22_SameVerdictTwice ==
    pc = "classified" => cls_first = cls_second

\* C23: the email-submission table is an immutable, never-deleted history:
\* whatever session-manager operation runs, every stored submission is still
\* stored afterwards, with the email content it had.
C23_SubmissionsNeverChange ==
    [][\A r \in db.subs :
          \E q \in db'.subs :
              /\ q.id = r.id
              /\ q.session = r.session
              /\ q.level = r.level
              /\ q.turn_number = r.turn_number
              /\ q.email_content = r.email_content]_vars

\* Submissions the call update_turn_and_clear_future(s, l, t, ...) must leave
\* alone: other sessions, other levels, and the turns below t.
OutsideUpdate(d, s, l, t) ==
    {r \in d.subs : ~(r.session = s /\ r.level = l /\ r.turn_number >= t)}

\* C30: a call of update_turn_and_clear_future(s, l, t, c) that returns True
\* leaves turn t with content c, no turn above t in that session and level,
\* no evaluation result without its submission, no completion record of the
\* level, and every other submission, evaluation and completion as it was;
\* when turn t is not stored the call returns False and changes nothing.
C30_UpdateTurnFrame ==
    [][last_call'.op = "update_turn_and_clear_future" =>
         IF last_call'.ret
         THEN LET s == last_call'.session
                  l == last_call'.level
                  t == last_call'.turn_number
              IN  /\ TurnRows(db, s, l, t) # {}
                  /\ TurnRows(db', s, l, t) # {}
                  /\ \A r \in TurnRows(db', s, l, t) :
                        r.email_content = last_call'.email_content
                  /\ FutureRows(db', s, l, t) = {}
                  /\ \A e \in db'.evals : \E r \in db'.subs : r.id = e.submission_id
                  /\ <<s, l>> \notin db'.comps
                  /\ OutsideUpdate(db', s, l, t) = OutsideUpdate(db, s, l, t)
                  /\ EvalsOf(db', OutsideUpdate(db', s, l, t))
                         = EvalsOf(db, OutsideUpdate(db, s, l, t))
                  /\ db'.comps \ {<<s, l>>} = db.comps \ {<<s, l>>}
         ELSE db' = db]_vars

\* An edit that replaced the content of a turn, deleted a later turn and
\* removed the completion of its level while another completion stays.
C30_Witness ==
    /\ last_call.op = "update_turn_and_clear_future"
    /\ last_call.ret
    /\ last_call.cleared
    /\ last_call.email_content = "y"
    /\ \E r \in TurnRows(db, last_call.session, last_call.level, last_call.turn_number) :
          r.email_content = "y"
    /\ db.comps # {}

InlineEvaluated(call) ==
    /\ call.op = "process_email_evaluation_user_mode_inline"
    /\ call.outcome = "evaluated"

\* C24: when process_email_evaluation_user_mode_inline runs to its end with
\* every database write succeeding, starting with the completion table equal
\* to the in-memory completed_levels, the two are equal afterwards, whether
\* or not the goal was achieved.
C24_CompletionTableMirrorsMemory ==
    [][(/\ InlineEvaluated(last_call')
        /\ last_call'.writes = "ok"
        /\ DbCompleted(db, InlineSession) = session_state.completed_levels)
       => DbCompleted(db', InlineSession) = session_state'.completed_levels]_vars

\* C25: a level credited by process_email_evaluation_user_mode_inline had the
\* majority outcome PASS for that submission, and a submission whose majority
\* outcome was FAIL is not credited.
C25_CreditOnlyOnMajorityPass ==
    InlineEvaluated(last_call) =>
        /\ last_call.level \in session_state.completed_levels
              => last_call.majority_outcome = "PASS"
        /\ last_call.majority_outcome = "FAIL"
              => last_call.level \notin session_state.completed_levels

MultiTurnCalled(call) == call.op = "process_email_evaluation_user_mode_multi_turn"

\* C28: a call of process_email_evaluation_user_mode_multi_turn for the next
\* turn of a session, with turn_number <= MAX_TURNS and every model call and
\* database write succeeding, stores exactly one submission with that turn
\* number and one evaluation result linked to it, and get_next_turn_number
\* advances by one.
C28_TurnStoredOnce ==
    [][(/\ MultiTurnCalled(last_call')
        /\ last_call'.turn_number <= MAX_TURNS
        /\ last_call'.all_ok
        /\ last_call'.turn_number
              = get_next_turn_number(db, last_call'.session, MultiTurnLevel))
       => /\ Cardinality(db'.subs \ db.subs) = 1
          /\ \A r \in db'.subs \ db.subs :
                /\ r.turn_number = last_call'.turn_number
                /\ Cardinality(EvalsOf(db', {r})) = 1
          /\ get_next_turn_number(db', last_call'.session, MultiTurnLevel)
                = get_next_turn_number(db, last_call'.session, MultiTurnLevel) + 1]_vars

============================================================================
